---------------------------- MODULE Spec2Model ----------------------------
(* Review-analytics dashboards: dashboard.py (multi-brand) and scraper.py  *)
(* (single brand).  A Streamlit script is re-run from top to bottom on     *)
(* every widget change; each action below is one widget change followed    *)
(* by the whole re-run (filter block, summary metrics, charts' data,       *)
(* category analysis).                                                     *)
EXTENDS Integers, Sequences, FiniteSets, TLC

(***************************************************************************)
(* Bounds of the model.                                                    *)
(***************************************************************************)
NumFixtures == 3      \* CSV contents tried: Fixture(1) .. Fixture(NumFixtures)
MaxSelected == 2      \* at most this many category checkboxes ticked at once

(***************************************************************************)
(* Strings.  TLC strings are atomic, so every string whose characters      *)
(* matter (keyword phrases, review texts) has its character sequence here. *)
(***************************************************************************)
StrChars ==
     "too small" :> <<"t", "o", "o", " ", "s", "m", "a", "l", "l">> @@
     "too big" :> <<"t", "o", "o", " ", "b", "i", "g">> @@
     "wrong size" :> <<"w", "r", "o", "n", "g", " ", "s", "i", "z", "e">> @@
     "poor fit" :> <<"p", "o", "o", "r", " ", "f", "i", "t">> @@
     "too tight" :> <<"t", "o", "o", " ", "t", "i", "g", "h", "t">> @@
     "loose" :> <<"l", "o", "o", "s", "e">> @@
     "didn't fit" :> <<"d", "i", "d", "n", "'", "t", " ", "f", "i", "t">> @@
     "short" :> <<"s", "h", "o", "r", "t">> @@
     "sizing" :> <<"s", "i", "z", "i", "n", "g">> @@
     "Sizing" :> <<"S", "i", "z", "i", "n", "g">> @@
     "fit" :> <<"f", "i", "t">> @@
     "too loose" :> <<"t", "o", "o", " ", "l", "o", "o", "s", "e">> @@
     "height" :> <<"h", "e", "i", "g", "h", "t">> @@
     "weight" :> <<"w", "e", "i", "g", "h", "t">> @@
     "poor sizing" :> <<"p", "o", "o", "r", " ", "s", "i", "z", "i", "n", "g">> @@
     "poor sizing information" :> <<"p", "o", "o", "r", " ", "s", "i", "z", "i", "n", "g", " ", "i", "n", "f", "o", "r", "m", "a", "t", "i", "o", "n">> @@
     "lack of sizing information" :> <<"l", "a", "c", "k", " ", "o", "f", " ", "s", "i", "z", "i", "n", "g", " ", "i", "n", "f", "o", "r", "m", "a", "t", "i", "o", "n">> @@
     "wrong sizing information" :> <<"w", "r", "o", "n", "g", " ", "s", "i", "z", "i", "n", "g", " ", "i", "n", "f", "o", "r", "m", "a", "t", "i", "o", "n">> @@
     "ordered wrong size" :> <<"o", "r", "d", "e", "r", "e", "d", " ", "w", "r", "o", "n", "g", " ", "s", "i", "z", "e">> @@
     "don't know my size" :> <<"d", "o", "n", "'", "t", " ", "k", "n", "o", "w", " ", "m", "y", " ", "s", "i", "z", "e">> @@
     "didn't know which size" :> <<"d", "i", "d", "n", "'", "t", " ", "k", "n", "o", "w", " ", "w", "h", "i", "c", "h", " ", "s", "i", "z", "e">> @@
     "which size" :> <<"w", "h", "i", "c", "h", " ", "s", "i", "z", "e">> @@
     "what's the length" :> <<"w", "h", "a", "t", "'", "s", " ", "t", "h", "e", " ", "l", "e", "n", "g", "t", "h">> @@
     "what's the size" :> <<"w", "h", "a", "t", "'", "s", " ", "t", "h", "e", " ", "s", "i", "z", "e">> @@
     "how tall" :> <<"h", "o", "w", " ", "t", "a", "l", "l">> @@
     "what size" :> <<"w", "h", "a", "t", " ", "s", "i", "z", "e">> @@
     "is this suitable for" :> <<"i", "s", " ", "t", "h", "i", "s", " ", "s", "u", "i", "t", "a", "b", "l", "e", " ", "f", "o", "r">> @@
     "idk which size" :> <<"i", "d", "k", " ", "w", "h", "i", "c", "h", " ", "s", "i", "z", "e">> @@
     "what size is the model wearing ?" :> <<"w", "h", "a", "t", " ", "s", "i", "z", "e", " ", "i", "s", " ", "t", "h", "e", " ", "m", "o", "d", "e", "l", " ", "w", "e", "a", "r", "i", "n", "g", " ", "?">> @@
     "How tall is the model?" :> <<"H", "o", "w", " ", "t", "a", "l", "l", " ", "i", "s", " ", "t", "h", "e", " ", "m", "o", "d", "e", "l", "?">> @@
     "Would this fit ?" :> <<"W", "o", "u", "l", "d", " ", "t", "h", "i", "s", " ", "f", "i", "t", " ", "?">> @@
     "no reply" :> <<"n", "o", " ", "r", "e", "p", "l", "y">> @@
     "didn't respond" :> <<"d", "i", "d", "n", "'", "t", " ", "r", "e", "s", "p", "o", "n", "d">> @@
     "ignored" :> <<"i", "g", "n", "o", "r", "e", "d">> @@
     "bad service" :> <<"b", "a", "d", " ", "s", "e", "r", "v", "i", "c", "e">> @@
     "no response" :> <<"n", "o", " ", "r", "e", "s", "p", "o", "n", "s", "e">> @@
     "unhelpful" :> <<"u", "n", "h", "e", "l", "p", "f", "u", "l">> @@
     "rude" :> <<"r", "u", "d", "e">> @@
     "messages from team" :> <<"m", "e", "s", "s", "a", "g", "e", "s", " ", "f", "r", "o", "m", " ", "t", "e", "a", "m">> @@
     "no answer" :> <<"n", "o", " ", "a", "n", "s", "w", "e", "r">> @@
     "refund" :> <<"r", "e", "f", "u", "n", "d">> @@
     "return" :> <<"r", "e", "t", "u", "r", "n">> @@
     "exchange" :> <<"e", "x", "c", "h", "a", "n", "g", "e">> @@
     "compensation" :> <<"c", "o", "m", "p", "e", "n", "s", "a", "t", "i", "o", "n">> @@
     "not delivered" :> <<"n", "o", "t", " ", "d", "e", "l", "i", "v", "e", "r", "e", "d">> @@
     "didn't receive" :> <<"d", "i", "d", "n", "'", "t", " ", "r", "e", "c", "e", "i", "v", "e">> @@
     "lost order" :> <<"l", "o", "s", "t", " ", "o", "r", "d", "e", "r">> @@
     "missing item" :> <<"m", "i", "s", "s", "i", "n", "g", " ", "i", "t", "e", "m">> @@
     "delivery delay" :> <<"d", "e", "l", "i", "v", "e", "r", "y", " ", "d", "e", "l", "a", "y">> @@
     "waiting" :> <<"w", "a", "i", "t", "i", "n", "g">> @@
     "fantastic" :> <<"f", "a", "n", "t", "a", "s", "t", "i", "c">> @@
     "great" :> <<"g", "r", "e", "a", "t">> @@
     "smooth" :> <<"s", "m", "o", "o", "t", "h">> @@
     "helpful" :> <<"h", "e", "l", "p", "f", "u", "l">> @@
     "excellent" :> <<"e", "x", "c", "e", "l", "l", "e", "n", "t">> @@
     "thank you" :> <<"t", "h", "a", "n", "k", " ", "y", "o", "u">> @@
     "amazing" :> <<"a", "m", "a", "z", "i", "n", "g">> @@
     "outstanding" :> <<"o", "u", "t", "s", "t", "a", "n", "d", "i", "n", "g">> @@
     "resolved" :> <<"r", "e", "s", "o", "l", "v", "e", "d">> @@
     "fast" :> <<"f", "a", "s", "t">> @@
     "quick" :> <<"q", "u", "i", "c", "k">> @@
     "wrong size, never got a reply" :> <<"w", "r", "o", "n", "g", " ", "s", "i", "z", "e", ",", " ", "n", "e", "v", "e", "r", " ", "g", "o", "t", " ", "a", " ", "r", "e", "p", "l", "y">> @@
     "Great benefit" :> <<"G", "r", "e", "a", "t", " ", "b", "e", "n", "e", "f", "i", "t">> @@
     "how tall is the mode" :> <<"h", "o", "w", " ", "t", "a", "l", "l", " ", "i", "s", " ", "t", "h", "e", " ", "m", "o", "d", "e">> @@
     "REFUND please" :> <<"R", "E", "F", "U", "N", "D", " ", "p", "l", "e", "a", "s", "e">> @@
     "ok" :> <<"o", "k">> @@
     "rude, still waiting" :> <<"r", "u", "d", "e", ",", " ", "s", "t", "i", "l", "l", " ", "w", "a", "i", "t", "i", "n", "g">> @@
     "what size is the model wearing?" :> <<"w", "h", "a", "t", " ", "s", "i", "z", "e", " ", "i", "s", " ", "t", "h", "e", " ", "m", "o", "d", "e", "l", " ", "w", "e", "a", "r", "i", "n", "g", "?">> @@
     "No Reply" :> <<"N", "o", " ", "R", "e", "p", "l", "y">>

\* upper-case letters that occur in the keyword phrases and the review texts
LowerOf ==
     "A" :> "a" @@ "D" :> "d" @@ "E" :> "e" @@ "F" :> "f" @@ "G" :> "g" @@
     "H" :> "h" @@ "N" :> "n" @@ "R" :> "r" @@ "S" :> "s" @@ "U" :> "u" @@
     "W" :> "w"

\* re.IGNORECASE folds both the pattern character and the text character
Lower(ch) == IF ch \in DOMAIN LowerOf THEN LowerOf[ch] ELSE ch

(***************************************************************************)
(* The category dictionaries.                                              *)
(***************************************************************************)
categories ==
  [ product_issue |->
      << "too small", "too big", "wrong size", "poor fit", "too tight", "loose", "didn't fit", "short", "sizing",
         "Sizing", "fit", "didn't fit", "too loose", "height", "weight", "poor sizing", "wrong size", "poor sizing information",
         "lack of sizing information", "wrong sizing information", "ordered wrong size", "don't know my size", "didn't know which size",
         "which size", "what's the length", "what's the size", "how tall", "what size", "is this suitable for", "idk which size",
         "what size is the model wearing ?", "How tall is the model?", "Would this fit ?" >>,
    service_issue |->
      << "no reply", "didn't respond", "ignored", "bad service", "no response", "unhelpful", "rude", "messages from team", "no answer" >>,
    expectation |->
      << "refund", "return", "exchange", "compensation" >>,
    delivery_issue |->
      << "not delivered", "didn't receive", "lost order", "missing item", "delivery delay", "waiting" >>,
    positive_experience |->
      << "fantastic", "great", "smooth", "helpful", "excellent", "thank you", "amazing", "outstanding", "resolved", "fast", "quick" >> ]

scraper_categories ==
  [ product_issue |->
      << "too small", "too big", "wrong size", "poor fit", "too tight", "loose", "didn't fit", "short", "sizing" >>,
    service_issue |->
      << "no reply", "didn't respond", "ignored", "bad service", "no response", "unhelpful", "rude", "messages from team", "no answer" >>,
    expectation |->
      << "refund", "return", "exchange", "compensation" >>,
    delivery_issue |->
      << "not delivered", "didn't receive", "lost order", "missing item", "delivery delay", "waiting" >>,
    positive_experience |->
      << "fantastic", "great", "smooth", "helpful", "excellent", "thank you", "amazing", "outstanding", "resolved", "fast", "quick" >> ]

\* iteration order of categories.items(): insertion order of the dict literal
CategoryOrder ==
  << "product_issue", "service_issue", "expectation", "delivery_issue", "positive_experience" >>

\* category.replace("_", " ").title()
CategoryTitle ==
  [ product_issue |-> "Product Issue", service_issue |-> "Service Issue",
    expectation |-> "Expectation", delivery_issue |-> "Delivery Issue",
    positive_experience |-> "Positive Experience" ]

Variants == {"dashboard", "scraper"}

Dictionary(v) == IF v = "dashboard" THEN categories ELSE scraper_categories

(***************************************************************************)
(* Series.str.contains(pat, case=False, na=False): pat is a regular        *)
(* expression searched anywhere in the text.  The only metacharacters in   *)
(* the joined keyword list are "|" (alternation, lowest precedence, one    *)
(* alternative per keyword) and "?" (the character before it is optional). *)
(***************************************************************************)
\* one alternative, compiled: its characters, each flagged optional or not
RECURSIVE Compile(_, _)
Compile(kw, i) ==
  IF i > Len(kw) THEN << >>
  ELSE IF kw[i] = "?" THEN Compile(kw, i + 1)
  ELSE << [ch |-> kw[i], opt |-> (i < Len(kw) /\ kw[i + 1] = "?")] >> \o Compile(kw, i + 1)

\* MatchAt without case folding (case=True)
RECURSIVE MatchAt_CaseSensitive(_, _, _, _)
MatchAt_CaseSensitive(pat, j, text, i) ==
  IF j > Len(pat) THEN TRUE
  ELSE \/ /\ i <= Len(text)
          /\ pat[j].ch = text[i]
          /\ MatchAt_CaseSensitive(pat, j + 1, text, i + 1)
       \/ /\ pat[j].opt
          /\ MatchAt_CaseSensitive(pat, j + 1, text, i)

\* does pattern pat[j..] match text starting at position i
RECURSIVE MatchAt(_, _, _, _)
MatchAt(pat, j, text, i) ==
  IF j > Len(pat) THEN TRUE
  ELSE \/ /\ i <= Len(text)
          /\ Lower(pat[j].ch) = Lower(text[i])
          /\ MatchAt(pat, j + 1, text, i + 1)
       \/ /\ pat[j].opt
          /\ MatchAt(pat, j + 1, text, i)

\* re.search of one alternative in text
Search(kw, text) ==
  LET pat == Compile(StrChars[kw], 1)
      t   == StrChars[text]
  IN  \E i \in 1..(Len(t) + 1) : MatchAt(pat, 1, t, i)

NA == "NA"            \* a missing cell (NaN)

\* the texts that occur in the CSV fixtures (review and matched_keywords cells)
Texts ==
  { "wrong size, never got a reply", "Great benefit", "how tall is the mode",
    "REFUND please", "ok", "rude, still waiting", "what size is the model wearing?",
    "No Reply", "wrong size", "refund" }

Keywords ==
  UNION { { categories[c][k] : k \in 1..Len(categories[c]) } : c \in DOMAIN categories }

\* Search, tabulated once for the keywords and texts of the model
PhraseHit == [kw \in Keywords |-> [t \in Texts |-> Search(kw, t)]]

\* str.contains("|".join(all_keywords), case=False, na=False) on one cell
str_contains(cell, all_keywords) ==
  IF cell = NA THEN FALSE
  ELSE \E k \in 1..Len(all_keywords) : PhraseHit[all_keywords[k]][cell]

(***************************************************************************)
(* CSV contents.  Dates are day numbers; a CSV row has no brand yet.       *)
(***************************************************************************)
Csv(name, review, rating, date, mk) ==
  [customer_name |-> name, review |-> review, rating |-> rating, date |-> date,
   matched_keywords |-> mk]

\* Fixture(i): the two CSV files read by dashboard.py (scraper.py reads the
\* first one only) and whether the files have a matched_keywords column
Fixture(i) ==
  CASE i = 1 ->
         [ wanderdoll |-> << Csv("ann", "Great benefit", 5, 900, NA),
                             Csv("bob", "wrong size, never got a reply", 1, 900, NA),
                             Csv("cat", "ok", 3, 900, NA),
                             Csv("dan", "No Reply", 4, 900, NA),
                             Csv("eve", "REFUND please", 2, 890, NA) >>,
           oddmuse    |-> << >>,
           mk_column  |-> FALSE ]
    [] i = 2 ->
         [ wanderdoll |-> << Csv("ann", "Great benefit", 5, 100, NA),
                             Csv("bob", "ok", 5, 600, NA),
                             Csv("ann", "Great benefit", 5, 100, NA),
                             Csv("cat", "how tall is the mode", 4, 900, NA) >>,
           oddmuse    |-> << Csv("dan", "rude, still waiting", 1, 800, NA),
                             Csv("eve", "REFUND please", 2, 900, NA) >>,
           mk_column  |-> FALSE ]
    [] i = 3 ->
         [ wanderdoll |-> << Csv("ann", "wrong size, never got a reply", 2, 700, "wrong size"),
                             Csv("bob", "REFUND please", 1, 800, NA),
                             Csv("cat", "ok", 3, 900, "refund"),
                             Csv("ann", "wrong size, never got a reply", 2, 700, NA) >>,
           oddmuse    |-> << Csv("ann", "wrong size, never got a reply", 2, 700, NA),
                             Csv("dan", "what size is the model wearing?", 4, 900, "wrong size") >>,
           mk_column  |-> TRUE ]
    [] OTHER ->
         [ wanderdoll |-> << Csv("ann", "ok", 3, 500, NA),
                             Csv("ann", "ok", 3, 500, NA) >>,
           oddmuse    |-> << Csv("bob", "No Reply", 1, 500, NA),
                             Csv("cat", "Great benefit", 5, 900, NA) >>,
           mk_column  |-> FALSE ]

NoBrand == "-"        \* scraper.py has no brand column

\* wanderdoll_df["brand"] = "Wanderdoll"
AddBrand(rows, b) ==
  [k \in 1..Len(rows) |->
     [brand |-> b, customer_name |-> rows[k].customer_name, review |-> rows[k].review,
      rating |-> rows[k].rating, date |-> rows[k].date,
      matched_keywords |-> rows[k].matched_keywords]]

DashboardKey == {"brand", "customer_name", "review", "rating", "date"}
ScraperKey   == {"customer_name", "review", "rating", "date"}

\* the row restricted to the columns of subset
OnSubset(r, subset) == [c \in subset |-> r[c]]

\* drop_duplicates_from with keep='last': rows k.. of s that no later row of s
\* equals on subset
RECURSIVE drop_duplicates_from_KeepLast(_, _, _)
drop_duplicates_from_KeepLast(s, subset, k) ==
  IF k > Len(s) THEN << >>
  ELSE (IF \A j \in (k + 1)..Len(s) : OnSubset(s[j], subset) # OnSubset(s[k], subset)
        THEN << s[k] >> ELSE << >>)
       \o drop_duplicates_from_KeepLast(s, subset, k + 1)

\* DataFrame.drop_duplicates(subset=..., keep='first'): rows k.. of s that no
\* earlier row of s equals on subset
RECURSIVE drop_duplicates_from(_, _, _)
drop_duplicates_from(s, subset, k) ==
  IF k > Len(s) THEN << >>
  ELSE (IF \A j \in 1..(k - 1) : OnSubset(s[j], subset) # OnSubset(s[k], subset)
        THEN << s[k] >> ELSE << >>)
       \o drop_duplicates_from(s, subset, k + 1)

drop_duplicates(s, subset) == drop_duplicates_from(s, subset, 1)

\* dashboard.py load_data
load_data(fx) ==
  LET wanderdoll_df == AddBrand(fx.wanderdoll, "Wanderdoll")
      oddmuse_df    == AddBrand(fx.oddmuse, "Odd Muse")
  IN  drop_duplicates(wanderdoll_df \o oddmuse_df, DashboardKey)

\* scraper.py load_data
scraper_load_data(fx) ==
  drop_duplicates(AddBrand(fx.wanderdoll, NoBrand), ScraperKey)

Load(v, fx) == IF v = "dashboard" THEN load_data(fx) ELSE scraper_load_data(fx)

\* the frame before drop_duplicates: pd.concat([wanderdoll_df, oddmuse_df]) in
\* dashboard.py, the one file read in scraper.py
Combined(v, fx) ==
  IF v = "dashboard"
  THEN AddBrand(fx.wanderdoll, "Wanderdoll") \o AddBrand(fx.oddmuse, "Odd Muse")
  ELSE AddBrand(fx.wanderdoll, NoBrand)

\* Python's min / max of a non-empty collection of integers
Min(S) == CHOOSE x \in S : \A y \in S : x <= y
Max(S) == CHOOSE x \in S : \A y \in S : y <= x

Dates(d)  == { d[k].date : k \in 1..Len(d) }
Brands(d) == { d[k].brand : k \in 1..Len(d) }

(***************************************************************************)
(* Category filter.                                                        *)
(***************************************************************************)
\* all_keywords after the loop  for category in selected_categories:
\*                                  all_keywords.extend(categories[category])
RECURSIVE all_keywords(_, _, _)
all_keywords(selected, dict, k) ==
  IF k > Len(selected) THEN << >>
  ELSE dict[selected[k]] \o all_keywords(selected, dict, k + 1)

\* categories[category] raises KeyError for a name that is not a key
RaisesKeyError(selected, dict) ==
  selected # << >> /\ \E k \in 1..Len(selected) : selected[k] \notin DOMAIN dict

\* SearchedCell that falls back to the review of a row without matched_keywords
SearchedCell_PerRow(r, mk_col) ==
  IF mk_col /\ r.matched_keywords # NA THEN r.matched_keywords ELSE r.review

\* the column searched: matched_keywords if the frame has it, else the review
SearchedCell(r, mk_col) == IF mk_col THEN r.matched_keywords ELSE r.review

\* every list selected_categories can be: the ticked checkboxes, in dict order
Selections == { SelectSeq(CategoryOrder, LAMBDA c : c \in S) : S \in SUBSET DOMAIN categories }

\* str_contains on the joined keywords of a selection, tabulated once
Contains ==
  [ v \in Variants |->
      [ sel \in Selections \ {<< >>} |->
          [ cell \in Texts \cup {NA} |->
              str_contains(cell, all_keywords(sel, Dictionary(v), 1)) ] ] ]

\* categories is the module-level dict of the running script (variant v)
filter_by_categories(d, selected, v, mk_col) ==
  IF selected = << >> THEN d
  ELSE SelectSeq(d, LAMBDA r : Contains[v][selected][SearchedCell(r, mk_col)])

(***************************************************************************)
(* Sidebar: the date range of the run.                                     *)
(***************************************************************************)
SixMonths    == 180
TwelveMonths == 365

DateOptions == {"All Time", "Last 6 months", "Last 12 months", "Custom"}

\* the value date_input shows before the user picks a range
DefaultRange(d) == << Max(Dates(d)) - TwelveMonths, Max(Dates(d)) >>

\* DashboardRange with "Last 12 months" reaching back 36 days only
DashboardRange_ShortYear(d, w) ==
  LET min_date == Min(Dates(d))
      max_date == Max(Dates(d))
  IN  CASE w.date_option = "All Time"       -> << min_date, max_date >>
        [] w.date_option = "Last 6 months"  -> << max_date - SixMonths, max_date >>
        [] w.date_option = "Last 12 months" -> << max_date - 36, max_date >>
        [] OTHER                            -> w.date_input

\* << start_date, end_date >> of dashboard.py
DashboardRange(d, w) ==
  LET min_date == Min(Dates(d))
      max_date == Max(Dates(d))
  IN  CASE w.date_option = "All Time"       -> << min_date, max_date >>
        [] w.date_option = "Last 6 months"  -> << max_date - SixMonths, max_date >>
        [] w.date_option = "Last 12 months" -> << max_date - TwelveMonths, max_date >>
        [] OTHER                            -> w.date_input

\* << start_date, end_date >> of scraper.py
ScraperRange(d, w) == w.date_input

(***************************************************************************)
(* The filter blocks ("# Apply filters").                                  *)
(***************************************************************************)
AllBrands == "All Brands"

\* DateMask with the end of the range excluded
DateMask_EndExclusive(r, range) == r.date >= range[1] /\ r.date < range[2]

\* boolean masks of the filter block, on one row
BrandMask(r, w)      == r.brand = w.brand_options
DateMask(r, range)   == r.date >= range[1] /\ r.date <= range[2]
RatingMask(r, w)     == r.rating \in w.rating_options

\* dashboard_filtered_df with the category filter applied whenever a category
\* is ticked, show_all or not
dashboard_filtered_df_IgnoresShowAll(d, mk_col, w) ==
  LET f1(x)  == IF w.brand_options # AllBrands
                THEN SelectSeq(x, LAMBDA r : r.brand = w.brand_options) ELSE x
      f2(x, range) == SelectSeq(x, LAMBDA r : r.date >= range[1] /\ r.date <= range[2])
      f3(x)  == IF w.rating_options # {}
                THEN SelectSeq(x, LAMBDA r : r.rating \in w.rating_options) ELSE x
      f4(x)  == IF w.selected_categories # << >>
                THEN filter_by_categories(x, w.selected_categories, "dashboard", mk_col)
                ELSE x
  IN  f4(f3(f2(f1(d), DashboardRange(d, w))))

\* dashboard_filtered_df with the rating mask applied to an empty selection too
dashboard_filtered_df_AlwaysRatingMask(d, mk_col, w) ==
  LET f1(x)  == IF w.brand_options # AllBrands
                THEN SelectSeq(x, LAMBDA r : r.brand = w.brand_options) ELSE x
      f2(x, range) == SelectSeq(x, LAMBDA r : r.date >= range[1] /\ r.date <= range[2])
      f3(x)  == SelectSeq(x, LAMBDA r : r.rating \in w.rating_options)
      f4(x)  == IF ~w.show_all /\ w.selected_categories # << >>
                THEN filter_by_categories(x, w.selected_categories, "dashboard", mk_col)
                ELSE x
  IN  f4(f3(f2(f1(d), DashboardRange(d, w))))

dashboard_filtered_df(d, mk_col, w) ==
  LET copy   == d
      f1(x)  == IF w.brand_options # AllBrands
                THEN SelectSeq(x, LAMBDA r : BrandMask(r, w)) ELSE x
      f2(x, range) == SelectSeq(x, LAMBDA r : DateMask(r, range))
      f3(x)  == IF w.rating_options # {}
                THEN SelectSeq(x, LAMBDA r : RatingMask(r, w)) ELSE x
      f4(x)  == IF ~w.show_all /\ w.selected_categories # << >>
                THEN filter_by_categories(x, w.selected_categories, "dashboard", mk_col)
                ELSE x
  IN  f4(f3(f2(f1(copy), DashboardRange(d, w))))

scraper_filtered_df(d, mk_col, w) ==
  LET copy   == d
      f2(x, range) == SelectSeq(x, LAMBDA r : DateMask(r, range))
      f3(x)  == SelectSeq(x, LAMBDA r : RatingMask(r, w))
      f4(x)  == IF ~w.show_all /\ w.selected_categories # << >>
                THEN filter_by_categories(x, w.selected_categories, "scraper", mk_col)
                ELSE x
  IN  f4(f3(f2(copy, ScraperRange(d, w))))

FilterBlock(v, d, mk_col, w) ==
  IF v = "dashboard" THEN dashboard_filtered_df(d, mk_col, w)
  ELSE scraper_filtered_df(d, mk_col, w)

\* FilterRaises with the names looked up before show_all is consulted
FilterRaises_BeforeShowAll(v, w) ==
  RaisesKeyError(w.selected_categories, Dictionary(v))

\* the filter block stops the run with KeyError
FilterRaises(v, w) ==
  ~w.show_all /\ RaisesKeyError(w.selected_categories, Dictionary(v))

(***************************************************************************)
(* Numbers.  A float result is kept as an exact fraction; NaN and a raised *)
(* ZeroDivisionError are values of their own.                              *)
(***************************************************************************)
Rat(n, d) == [num |-> n, den |-> d]
NaN == [nan |-> TRUE]
ZeroDivisionError == [raised |-> "ZeroDivisionError"]

\* a / b * 100 on Python ints
Pct(a, b) == IF b = 0 THEN ZeroDivisionError ELSE Rat(100 * a, b)

RECURSIVE SumRatings(_, _)
SumRatings(d, k) == IF k > Len(d) THEN 0 ELSE d[k].rating + SumRatings(d, k + 1)

\* Series.mean(): NaN on an empty series
mean(d) == IF Len(d) = 0 THEN NaN ELSE Rat(SumRatings(d, 1), Len(d))

\* CountAtLeast with a strict comparison (rating > lo)
CountAtLeast_Strict(d, lo) == Cardinality({ k \in 1..Len(d) : d[k].rating > lo })

\* len(d[d["rating"] >= lo]) and len(d[d["rating"] <= hi])
CountAtLeast(d, lo) == Cardinality({ k \in 1..Len(d) : d[k].rating >= lo })
CountAtMost(d, hi)  == Cardinality({ k \in 1..Len(d) : d[k].rating <= hi })

\* avg_rating - overall_avg
Delta(a, b) == Rat(a.num * b.den - b.num * a.den, a.den * b.den)

(***************************************************************************)
(* Dashboard tab: summary metrics and the data behind the charts.          *)
(***************************************************************************)
NotShown == [shown |-> FALSE]      \* the "No reviews match" warning instead

summary_metrics(d, f) ==
  IF Len(f) # 0
  THEN [ shown          |-> TRUE,
         total          |-> Len(f),
         of_total       |-> Len(d),
         avg_rating     |-> mean(f),
         delta          |-> Delta(mean(f), mean(d)),
         positive_count |-> CountAtLeast(f, 4),
         positive_pct   |-> Pct(CountAtLeast(f, 4), Len(f)),
         negative_count |-> CountAtMost(f, 2),
         negative_pct   |-> Pct(CountAtMost(f, 2), Len(f)) ]
  ELSE NotShown

\* Series.value_counts(): one entry per value that occurs in the series
value_counts(series) ==
  [ x \in { series[k] : k \in 1..Len(series) } |->
      Cardinality({ k \in 1..Len(series) : series[k] = x }) ]

\* filtered_df["rating"].value_counts().sort_index()
rating_counts_of(f) == value_counts([k \in 1..Len(f) |-> f[k].rating])

sentiment(x) ==
  IF x >= 4 THEN "Positive (4-5)"
  ELSE IF x <= 2 THEN "Negative (1-2)"
  ELSE "Neutral (3)"

\* filtered_df["rating"].apply(lambda x: ...).value_counts()
sentiment_counts_of(f) == value_counts([k \in 1..Len(f) |-> sentiment(f[k].rating)])

\* the dict appended to category_data for the rows cat_df
category_row(category, cat_df) ==
  [ Category    |-> CategoryTitle[category],
    Count       |-> Len(cat_df),
    Avg_Rating  |-> IF Len(cat_df) > 0 THEN mean(cat_df) ELSE Rat(0, 1),
    Positive    |-> IF Len(cat_df) > 0 THEN Pct(CountAtLeast(cat_df, 4), Len(cat_df))
                    ELSE Rat(0, 1) ]

\* cat_df of one selected category, dashboard.py
dashboard_cat_df(d, mk_col, w, category) ==
  LET c1(x) == IF w.brand_options # AllBrands
               THEN SelectSeq(x, LAMBDA r : BrandMask(r, w)) ELSE x
      c2(x, range) == SelectSeq(x, LAMBDA r : DateMask(r, range) /\ RatingMask(r, w))
  IN  c2(c1(filter_by_categories(d, << category >>, "dashboard", mk_col)),
         DashboardRange(d, w))

\* cat_df of one selected category, scraper.py
scraper_cat_df(d, mk_col, w, category) ==
  LET c2(x, range) == SelectSeq(x, LAMBDA r : DateMask(r, range) /\ RatingMask(r, w))
  IN  c2(filter_by_categories(d, << category >>, "scraper", mk_col), ScraperRange(d, w))

\* category_data: built only inside  if not filtered_df.empty:  and
\* if not show_all and selected_categories:
category_analysis(v, d, mk_col, w, f) ==
  IF Len(f) # 0 /\ ~w.show_all /\ w.selected_categories # << >>
  THEN [ k \in 1..Len(w.selected_categories) |->
           category_row(w.selected_categories[k],
                        IF v = "dashboard"
                        THEN dashboard_cat_df(d, mk_col, w, w.selected_categories[k])
                        ELSE scraper_cat_df(d, mk_col, w, w.selected_categories[k])) ]
  ELSE << >>

(***************************************************************************)
(* Dashboard tab: the timeline chart.                                      *)
(***************************************************************************)
\* days before the first day of each month of a 365-day year
DaysBefore == << 0, 31, 59, 90, 120, 151, 181, 212, 243, 273, 304, 334 >>

\* date.dt.to_period('M'): the calendar month of a date.  Day number 1 is
\* 1 January 2021 and the day numbers of the CSV contents end before 2024,
\* so every year has 365 days.
to_period_M(date) ==
  LET doy == ((date - 1) % 365) + 1
  IN  [ year  |-> 2021 + ((date - 1) \div 365),
        month |-> Cardinality({ m \in 1..12 : DaysBefore[m] < doy }) ]

\* the sentiment labels in str order, the order groupby sorts them in
SentimentOrder == << "Negative (1-2)", "Neutral (3)", "Positive (4-5)" >>

\* position of a (month, sentiment) group key in the sorted group index
GroupRank(key) ==
  (key[1].year * 12 + key[1].month) * 4
  + (CHOOSE k \in 1..3 : SentimentOrder[k] = key[2])

\* the elements of the set keys as a sequence in ascending GroupRank
RECURSIVE SortedGroups(_)
SortedGroups(keys) ==
  IF keys = {} THEN << >>
  ELSE LET first == CHOOSE x \in keys : \A y \in keys : GroupRank(x) <= GroupRank(y)
       IN  << first >> \o SortedGroups(keys \ {first})

\* monthly_timeline_df with a row for every sentiment label in every month of
\* the view, Count 0 included
monthly_timeline_df_EveryLabel(f) ==
  LET rows(keys, groups) ==
        [ g \in 1..Len(groups) |->
            [ Month     |-> groups[g][1],
              Sentiment |-> groups[g][2],
              Count     |-> Cardinality({ k \in 1..Len(f) : keys[k] = groups[g] }) ] ]
      grouped(keys) ==
        rows(keys, SortedGroups({ << keys[k][1], SentimentOrder[l] >> :
                                  k \in 1..Len(f), l \in 1..3 }))
  IN  grouped([ k \in 1..Len(f) |-> << to_period_M(f[k].date), sentiment(f[k].rating) >> ])

\* timeline_data.groupby(['month', 'sentiment']).size().reset_index() with
\* columns ['Month', 'Sentiment', 'Count']
monthly_timeline_df(f) ==
  LET rows(keys, groups) ==
        [ g \in 1..Len(groups) |->
            [ Month     |-> groups[g][1],
              Sentiment |-> groups[g][2],
              Count     |-> Cardinality({ k \in 1..Len(f) : keys[k] = groups[g] }) ] ]
      grouped(keys) == rows(keys, SortedGroups({ keys[k] : k \in 1..Len(f) }))
  IN  grouped([ k \in 1..Len(f) |-> << to_period_M(f[k].date), sentiment(f[k].rating) >> ])

\* the elements of the set of day numbers as an ascending sequence
RECURSIVE SortedDays(_)
SortedDays(days) ==
  IF days = {} THEN << >>
  ELSE << Min(days) >> \o SortedDays(days \ {Min(days)})

\* scraper.py: filtered_df.groupby(filtered_df["date of experience"].dt.date)
\* .size().reset_index() with columns ["Date", "Review Count"]
daily_timeline_df(f) ==
  LET rows(days) ==
        [ g \in 1..Len(days) |->
            [ Date         |-> days[g],
              Review_Count |-> Cardinality({ k \in 1..Len(f) : f[k].date = days[g] }) ] ]
  IN  rows(SortedDays(Dates(f)))

\* the timeline is built inside  if not filtered_df.empty:
timeline_of(v, f) ==
  IF Len(f) = 0 THEN << >>
  ELSE IF v = "dashboard" THEN monthly_timeline_df(f) ELSE daily_timeline_df(f)

\* every selection of rows of s, in the order of s
RECURSIVE SubSeqs(_)
SubSeqs(s) ==
  IF s = << >> THEN { << >> }
  ELSE LET with_head(rest) == rest \cup { << Head(s) >> \o t : t \in rest }
       IN  with_head(SubSeqs(Tail(s)))

\* every value filtered_df can take: a selection of rows of a loaded Dataset
Views == UNION { SubSeqs(Load(v, Fixture(i))) : v \in Variants, i \in 1..NumFixtures }

\* timeline_of, tabulated once
Timeline == [ v \in Variants |-> [ f \in Views |-> timeline_of(v, f) ] ]

(***************************************************************************)
(* Data tab.  Column names are the row's field names: "customer_name" is   *)
(* the column "customer name"; in scraper.py "rating", "review" and "date" *)
(* are the columns "rating_clean", "review_text" and "date of experience". *)
(***************************************************************************)
\* df.columns: the CSV files carry no "link" column, and "matched_keywords"
\* only if mk_col
Columns(v, mk_col) ==
  (IF v = "dashboard" THEN {"brand"} ELSE {})
  \cup {"customer_name", "rating", "review", "date"}
  \cup (IF mk_col THEN {"matched_keywords"} ELSE {})

\* options= and default= of the "Select Columns to Display" multiselect
ColumnOptions(v) ==
  IF v = "dashboard"
  THEN {"brand", "customer_name", "rating", "review", "date", "link", "matched_keywords"}
  ELSE {"customer_name", "rating", "review", "date", "matched_keywords"}

DefaultColumns(v) ==
  IF v = "dashboard"
  THEN {"brand", "customer_name", "rating", "date", "matched_keywords"}
  ELSE {"customer_name", "rating", "review", "date"}

\* options= of the "Sort by" selectbox (index=0) and of the "Sort Order" radio
SortOptions(v) ==
  IF v = "dashboard" THEN << "date", "rating", "customer_name", "brand" >>
  ELSE << "date", "rating", "customer_name" >>

SortOrders == << "Descending", "Ascending" >>

\* the strings of the sort columns, ascending in Python's str order
StrOrder == << "-", "Odd Muse", "Wanderdoll", "ann", "bob", "cat", "dan", "eve" >>

\* the value sort_values compares for row r
SortKey(r, sort_by) ==
  IF sort_by \in {"date", "rating"} THEN r[sort_by]
  ELSE CHOOSE k \in 1..Len(StrOrder) : StrOrder[k] = r[sort_by]

\* row i of f is placed before row j: by the key in the direction asked for,
\* rows with equal keys by their position, kept or reversed
Before(f, i, j, sort_by, ascending, ties_kept) ==
  LET a == SortKey(f[i], sort_by)
      b == SortKey(f[j], sort_by)
  IN  \/ IF ascending THEN a < b ELSE a > b
      \/ a = b /\ (IF ties_kept THEN i < j ELSE i > j)

\* the positions of f's rows in the order Before puts them in
Arrangement(f, sort_by, ascending, ties_kept) ==
  [ k \in 1..Len(f) |->
      CHOOSE i \in 1..Len(f) :
        Cardinality({ j \in 1..Len(f) : Before(f, j, i, sort_by, ascending, ties_kept) })
          = k - 1 ]

\* DataFrame.sort_values(sort_by, ascending=ascending) with the default
\* kind='quicksort', which is not a stable sort: the rows come out ordered by
\* the key, and where rows with equal keys land is up to the algorithm.  The
\* outcomes kept here are the two extremes: equal keys in their original
\* order, and equal keys in the reverse of it.
sort_values(f, sort_by, ascending) ==
  { Arrangement(f, sort_by, ascending, ties_kept) : ties_kept \in BOOLEAN }

NotBuilt == [built |-> FALSE]      \* display_df was never assigned

\* filtered_df[show_columns] raises KeyError for a column df does not have;
\* sort_values raises KeyError for a key that is not among the columns left
DisplayRaises(v, mk_col, w) ==
  \/ w.show_columns \ Columns(v, mk_col) # {}
  \/ w.sort_by \notin w.show_columns

\* the "Data Summary" expander reads display_df['date'] and display_df['rating']
SummaryRaises(w) == {"date", "rating"} \ w.show_columns # {}

\* display_df for one order of the rows: each row keeps its index label (here
\* its position in filtered_df) and the selected columns
Table(f, order, show_columns) ==
  [ k \in 1..Len(order) |->
      [ index |-> order[k], cells |-> OnSubset(f[order[k]], show_columns) ] ]

\* The Data tab of one run: how it ended and every display_df it can build.
data_tab(v, mk_col, w, f) ==
  IF Len(f) # 0 /\ w.show_columns # {}
  THEN IF DisplayRaises(v, mk_col, w)
       THEN [ status |-> "KeyError", tables |-> { NotBuilt } ]
       ELSE [ status |-> IF SummaryRaises(w) THEN "KeyError" ELSE "ok",
              tables |-> { Table(f, order, w.show_columns) :
                           order \in sort_values(f, w.sort_by,
                                                 w.sort_order = "Ascending") } ]
  ELSE [ status |-> "warning", tables |-> { NotBuilt } ]

(***************************************************************************)
(* Brand Comparison tab (dashboard.py only).                               *)
(***************************************************************************)
\* df["brand"].unique().tolist(): the brands in order of first appearance
available_brands(d) ==
  LET firsts == SelectSeq([k \in 1..Len(d) |-> k],
                          LAMBDA k : \A j \in 1..(k - 1) : d[j].brand # d[k].brand)
  IN  [ i \in 1..Len(firsts) |-> d[firsts[i]].brand ]

\* one brand's entries of comparison_data: Count and % per category of
\* categories.items()
comparison_rows(brand_data, mk_col) ==
  [ k \in 1..Len(CategoryOrder) |->
      LET Count(brand_cat) ==
            [ Category |-> CategoryTitle[CategoryOrder[k]],
              Count    |-> Len(brand_cat),
              Percent  |-> IF Len(brand_data) > 0
                           THEN Pct(Len(brand_cat), Len(brand_data)) ELSE Rat(0, 1) ]
      IN  Count(filter_by_categories(brand_data, << CategoryOrder[k] >>,
                                     "dashboard", mk_col)) ]

\* everything the tab shows for the rows brand_data of one brand
brand_figures(brand_data, mk_col) ==
  [ avg_rating |-> mean(brand_data),
    total      |-> Len(brand_data),
    positive   |-> Pct(CountAtLeast(brand_data, 4), Len(brand_data)),
    negative   |-> Pct(CountAtMost(brand_data, 2), Len(brand_data)),
    ratings    |-> rating_counts_of(brand_data),
    categories |-> comparison_rows(brand_data, mk_col) ]

NotRendered == [rendered |-> FALSE]     \* the run never reached the tab

NoWidget == "(no widget)"               \* the selectbox was not created

\* brand1 = st.selectbox(..., available_brands, key="brand1") starts at index 0
DefaultBrand1(v, d) ==
  IF v = "dashboard" /\ Len(available_brands(d)) >= 2
  THEN available_brands(d)[1] ELSE NoWidget

\* brand_data that keeps the rows of every brand
brand_data_AllRows(d, b) == d

\* df[df["brand"] == b]
brand_data(d, b) == SelectSeq(d, LAMBDA r : r.brand = b)

\* The second selectbox offers [b for b in available_brands if b != brand1];
\* load_data tags two files, so this list has one element and brand2 is it.
brand_comparison(d, mk_col, first_brand) ==
  LET compare(brand2) ==
        [ rendered  |-> TRUE,
          available |-> TRUE,
          brand1    |-> first_brand,
          brand2    |-> brand2,
          figures1  |-> brand_figures(brand_data(d, first_brand), mk_col),
          figures2  |-> brand_figures(brand_data(d, brand2), mk_col) ]
      tab(brands) ==
        IF Len(brands) < 2
        THEN [ rendered |-> TRUE, available |-> FALSE, currently |-> brands ]
        ELSE compare(SelectSeq(brands, LAMBDA b : b # first_brand)[1])
  IN  tab(available_brands(d))

\* the frames dashboard.py can load, each with its "matched_keywords" in df.columns
Frames ==
  { << Load("dashboard", Fixture(i)), Fixture(i).mk_column >> : i \in 1..NumFixtures }

\* brand_comparison, tabulated once: the tab reads df and its own widgets only
Comparison ==
  [ frame \in Frames |->
      [ b \in {"Wanderdoll", "Odd Muse", NoWidget} |->
          brand_comparison(frame[1], frame[2], b) ] ]

(***************************************************************************)
(* State.                                                                  *)
(***************************************************************************)
VARIABLES
  variant,              \* which script runs: "dashboard" or "scraper"
  combined_df,          \* the frame load_data read, before drop_duplicates
  df,                   \* the loaded Dataset
  mk_column,            \* "matched_keywords" in df.columns
  brand_options,        \* sidebar widgets
  date_option,
  date_input,
  rating_options,
  selected_categories,
  show_all,
  show_columns,         \* Data tab widgets
  sort_by,
  sort_order,
  brand1,               \* Brand Comparison tab widget
  status,               \* "ok", or the exception that stopped the run
  start_date,           \* values computed by the run
  end_date,
  filtered_df,
  metrics,
  rating_counts,
  sentiment_counts,
  category_data,
  timeline_df,
  data_status,          \* how the Data tab ended
  display_df,
  comparison            \* what the Brand Comparison tab shows

widgets == << brand_options, date_option, date_input, rating_options,
              selected_categories, show_all, show_columns, sort_by, sort_order,
              brand1 >>
outputs == << status, start_date, end_date, filtered_df, metrics, rating_counts,
              sentiment_counts, category_data, timeline_df, data_status, display_df,
              comparison >>
vars == << variant, combined_df, df, mk_column, widgets, outputs >>

Ratings == 1..5

\* the widget values of the current state, as one record
W == [ brand_options |-> brand_options, date_option |-> date_option,
       date_input |-> date_input, rating_options |-> rating_options,
       selected_categories |-> selected_categories, show_all |-> show_all,
       show_columns |-> show_columns, sort_by |-> sort_by,
       sort_order |-> sort_order, brand1 |-> brand1 ]

Range(v, d, w) == IF v = "dashboard" THEN DashboardRange(d, w) ELSE ScraperRange(d, w)

\* What a run computes once the filter block has produced f and the Data tab
\* has ended as data.  An exception of the Data tab stops the script before
\* the Brand Comparison tab; scraper.py has no such tab.
Rendered(v, d, mk_col, w, f, range, data) ==
  [ status           |-> "ok",
    range            |-> range,
    filtered_df      |-> f,
    metrics          |-> summary_metrics(d, f),
    rating_counts    |-> rating_counts_of(f),
    sentiment_counts |-> sentiment_counts_of(f),
    category_data    |-> category_analysis(v, d, mk_col, w, f),
    timeline_df      |-> Timeline[v][f],
    data_status      |-> data.status,
    tables           |-> data.tables,
    comparison       |-> IF v = "dashboard" /\ data.status # "KeyError"
                         THEN Comparison[<< d, mk_col >>][w.brand1]
                         ELSE NotRendered ]

\* what a run computes once the filter block has produced f
Computed(v, d, mk_col, w, f, range) ==
  Rendered(v, d, mk_col, w, f, range, data_tab(v, mk_col, w, f))

\* One run of the script with widget values w: everything it computes, with
\* every display_df the sort can produce in tables.
Script(v, d, mk_col, w) ==
  IF FilterRaises(v, w)
  THEN [ status |-> "KeyError", range |-> Range(v, d, w), filtered_df |-> << >>,
         metrics |-> NotShown, rating_counts |-> << >>, sentiment_counts |-> << >>,
         category_data |-> << >>, timeline_df |-> << >>,
         data_status |-> "not rendered", tables |-> { NotBuilt },
         comparison |-> NotRendered ]
  ELSE Computed(v, d, mk_col, w, FilterBlock(v, d, mk_col, w), Range(v, d, w))

\* the state after a run with widget values w that computed out
Shown(w, out) ==
  /\ brand_options' = w.brand_options
  /\ date_option' = w.date_option
  /\ date_input' = w.date_input
  /\ rating_options' = w.rating_options
  /\ selected_categories' = w.selected_categories
  /\ show_all' = w.show_all
  /\ show_columns' = w.show_columns
  /\ sort_by' = w.sort_by
  /\ sort_order' = w.sort_order
  /\ brand1' = w.brand1
  /\ status' = out.status
  /\ start_date' = out.range[1]
  /\ end_date' = out.range[2]
  /\ filtered_df' = out.filtered_df
  /\ metrics' = out.metrics
  /\ rating_counts' = out.rating_counts
  /\ sentiment_counts' = out.sentiment_counts
  /\ category_data' = out.category_data
  /\ timeline_df' = out.timeline_df
  /\ data_status' = out.data_status
  /\ display_df' \in out.tables
  /\ comparison' = out.comparison
  /\ UNCHANGED << variant, combined_df, df, mk_column >>

\* Rerun that selects by the ratings ticked both before and now
Rerun_RatingsNarrowed(w) ==
  Shown(w, Script(variant, df, mk_column,
                  [w EXCEPT !.rating_options = w.rating_options \cap rating_options]))

\* the widgets take the values w and the script re-runs
Rerun(w) == Shown(w, Script(variant, df, mk_column, w))

\* widget defaults of the first run
DefaultWidgets(v, d) ==
  [ brand_options       |-> AllBrands,
    date_option         |-> IF v = "dashboard" THEN "All Time" ELSE "Custom",
    date_input          |-> DefaultRange(d),
    rating_options      |-> Ratings,
    selected_categories |-> << >>,
    show_all            |-> TRUE,
    show_columns        |-> DefaultColumns(v),
    sort_by             |-> SortOptions(v)[1],
    sort_order          |-> SortOrders[1],
    brand1              |-> DefaultBrand1(v, d) ]

Init ==
  \E i \in 1..NumFixtures, v \in Variants :
    LET d   == Load(v, Fixture(i))
        w   == DefaultWidgets(v, d)
        out == Script(v, d, Fixture(i).mk_column, w)
    IN  /\ variant = v
        /\ combined_df = Combined(v, Fixture(i))
        /\ df = d
        /\ mk_column = Fixture(i).mk_column
        /\ brand_options = w.brand_options
        /\ date_option = w.date_option
        /\ date_input = w.date_input
        /\ rating_options = w.rating_options
        /\ selected_categories = w.selected_categories
        /\ show_all = w.show_all
        /\ show_columns = w.show_columns
        /\ sort_by = w.sort_by
        /\ sort_order = w.sort_order
        /\ brand1 = w.brand1
        /\ status = out.status
        /\ start_date = out.range[1]
        /\ end_date = out.range[2]
        /\ filtered_df = out.filtered_df
        /\ metrics = out.metrics
        /\ rating_counts = out.rating_counts
        /\ sentiment_counts = out.sentiment_counts
        /\ category_data = out.category_data
        /\ timeline_df = out.timeline_df
        /\ data_status = out.data_status
        /\ display_df \in out.tables
        /\ comparison = out.comparison

(***************************************************************************)
(* Widget changes.                                                         *)
(***************************************************************************)
\* options=["All Brands"] + sorted(df["brand"].unique().tolist())
SelectBrand(b) ==
  /\ variant = "dashboard"
  /\ b \in {AllBrands} \cup Brands(df)
  /\ b # brand_options
  /\ Rerun([W EXCEPT !.brand_options = b])

\* the date_input widget exists only under "Custom" and starts at its default
SelectDateOption(o) ==
  /\ variant = "dashboard"
  /\ o \in DateOptions
  /\ o # date_option
  /\ Rerun([W EXCEPT !.date_option = o, !.date_input = DefaultRange(df)])

\* days the user picks in date_input (min_value=min_date, max_value=max_date)
CustomDays == {100, 700, 900}

PickDateRange(s, e) ==
  /\ variant = "scraper" \/ date_option = "Custom"
  /\ s \in CustomDays /\ e \in CustomDays
  /\ Min(Dates(df)) <= s /\ s <= e /\ e <= Max(Dates(df))
  /\ << s, e >> # date_input
  /\ Rerun([W EXCEPT !.date_input = << s, e >>])

ToggleRating(r) ==
  /\ r \in Ratings
  /\ Rerun([W EXCEPT !.rating_options =
                       IF r \in rating_options THEN rating_options \ {r}
                       ELSE rating_options \cup {r}])

Ticked == { selected_categories[k] : k \in 1..Len(selected_categories) }

\* selected_categories is rebuilt in the order of categories.items()
InDictOrder(S) == SelectSeq(CategoryOrder, LAMBDA c : c \in S)

\* The "Show All Reviews" checkbox has value=not bool(selected_categories) and
\* no key: when that default changes it is a new widget showing the new default.
ToggleCategory(c) ==
  /\ c \in DOMAIN Dictionary(variant)
  /\ LET S == IF c \in Ticked THEN Ticked \ {c} ELSE Ticked \cup {c}
     IN  /\ Cardinality(S) <= MaxSelected
         /\ Rerun([W EXCEPT !.selected_categories = InDictOrder(S),
                            !.show_all = IF (S = {}) # (Ticked = {})
                                         THEN (S = {}) ELSE show_all])

ToggleShowAll ==
  Rerun([W EXCEPT !.show_all = ~show_all])

Next ==
  \/ \E b \in {AllBrands, "Wanderdoll", "Odd Muse"} : SelectBrand(b)
  \/ \E o \in DateOptions : SelectDateOption(o)
  \/ \E s \in CustomDays, e \in CustomDays : PickDateRange(s, e)
  \/ \E r \in Ratings : ToggleRating(r)
  \/ \E c \in DOMAIN categories : ToggleCategory(c)
  \/ ToggleShowAll

Spec == Init /\ [][Next]_vars

(***************************************************************************)
(* The filter as a function of a caller-built FilterSpec: the category     *)
(* names and show_all come from the caller instead of the checkboxes, so a *)
(* name that is no key of the dictionary can occur.                        *)
(***************************************************************************)
Unrecognized == "shipping_issue"

CallerCategories ==
  { << Unrecognized >>, << Unrecognized, "expectation" >>, << "expectation", Unrecognized >> }

ApplyFilterSpec(sel, sa) ==
  /\ sel \in CallerCategories
  /\ Len(sel) <= MaxSelected
  /\ sa \in BOOLEAN
  /\ << sel, sa >> # << selected_categories, show_all >>
  /\ Rerun([W EXCEPT !.selected_categories = sel, !.show_all = sa])

NextApi ==
  \/ Next
  \/ \E sel \in CallerCategories, sa \in BOOLEAN : ApplyFilterSpec(sel, sa)

SpecApi == Init /\ [][NextApi]_vars

(***************************************************************************)
(* The widgets of the Data tab and of the Brand Comparison tab.  They are  *)
(* exercised together with the sidebar's brand filter.                     *)
(***************************************************************************)
\* tick or untick one option of the "Select Columns to Display" multiselect
ToggleColumn(c) ==
  /\ c \in ColumnOptions(variant)
  /\ Rerun([W EXCEPT !.show_columns =
                       IF c \in show_columns THEN show_columns \ {c}
                       ELSE show_columns \cup {c}])

SelectSortBy(key) ==
  /\ \E k \in 1..Len(SortOptions(variant)) : SortOptions(variant)[k] = key
  /\ key # sort_by
  /\ Rerun([W EXCEPT !.sort_by = key])

SelectSortOrder(o) ==
  /\ o # sort_order
  /\ Rerun([W EXCEPT !.sort_order = o])

\* the "Select First Brand" selectbox exists once the tab's else branch ran
SelectBrand1(b) ==
  /\ brand1 # NoWidget
  /\ comparison # NotRendered
  /\ \E k \in 1..Len(available_brands(df)) : available_brands(df)[k] = b
  /\ b # brand1
  /\ Rerun([W EXCEPT !.brand1 = b])

NextTabs ==
  \/ \E b \in {AllBrands, "Wanderdoll", "Odd Muse"} : SelectBrand(b)
  \/ \E c \in ColumnOptions("dashboard") : ToggleColumn(c)
  \/ \E key \in {"date", "rating", "customer_name", "brand"} : SelectSortBy(key)
  \/ \E o \in {"Descending", "Ascending"} : SelectSortOrder(o)
  \/ \E b \in {"Wanderdoll", "Odd Muse"} : SelectBrand1(b)

SpecTabs == Init /\ [][NextTabs]_vars

(***************************************************************************)
(* Properties.                                                             *)
(***************************************************************************)
\* phrase occurs in cell as a literal substring, ignoring case
ContainsLiterally(cell, phrase) ==
  LET t == StrChars[cell]
      p == StrChars[phrase]
  IN  \E i \in 1..(Len(t) - Len(p) + 1) :
        \A k \in 1..Len(p) : Lower(t[i + k - 1]) = Lower(p[k])

\* cell contains a keyword phrase of category c verbatim; tabulated once
LiteralHit ==
  [ v \in Variants |->
      [ c \in DOMAIN categories |->
          [ cell \in Texts \cup {NA} |->
              /\ cell # NA
              /\ \E k \in 1..Len(Dictionary(v)[c]) :
                   ContainsLiterally(cell, Dictionary(v)[c][k]) ] ] ]

BrandActive    == variant = "dashboard" /\ brand_options # AllBrands
RatingActive   == variant = "scraper" \/ rating_options # {}
CategoryActive == ~show_all /\ selected_categories # << >>

\* the row satisfies every active predicate of the current FilterSpec
Satisfies(r) ==
  /\ BrandActive => r.brand = brand_options
  /\ start_date <= r.date /\ r.date <= end_date
  /\ RatingActive => r.rating \in rating_options
  /\ CategoryActive =>
       \E c \in Ticked :
         LiteralHit[variant][c][IF mk_column THEN r.matched_keywords ELSE r.review]

\* C1: the FilteredView is exactly the rows of the Dataset that satisfy all
\* active predicates at once (brand equal, start <= date <= end inclusive,
\* rating selected, literal keyword match), in the Dataset's order.
C1_ExactRows ==
  status = "ok" => filtered_df = SelectSeq(df, Satisfies)

\* a state where all four predicates are active and both keep and drop rows
C1_Witness ==
  /\ status = "ok" /\ BrandActive /\ CategoryActive
  /\ rating_options # {} /\ rating_options # Ratings
  /\ start_date > Min(Dates(df))
  /\ filtered_df # << >>
  /\ \E k \in 1..Len(df) : df[k].brand = brand_options /\ ~Satisfies(df[k])

\* C2: with every filter inactive (All Brands, All Time, five ratings,
\* show_all whatever is ticked) the FilteredView is the Dataset, not empty.
C2_InactiveIsIdentity ==
  ( /\ variant = "dashboard"
    /\ brand_options = AllBrands
    /\ date_option = "All Time"
    /\ rating_options = Ratings
    /\ show_all )
  => status = "ok" /\ filtered_df = df /\ filtered_df # << >>

C2_Witness ==
  /\ variant = "dashboard" /\ brand_options = AllBrands /\ date_option = "All Time"
  /\ rating_options = Ratings /\ show_all
  /\ Len(selected_categories) = 2
  /\ filtered_df = df /\ Len(df) > 1

RowSet(s) == { s[k] : k \in 1..Len(s) }

\* day numbers tried as the ends of a wider range
RangeDays == CustomDays \cup {Min(Dates(df)), Max(Dates(df)), Max(Dates(df)) - SixMonths}

ViewFor(option, range) ==
  FilterBlock(variant, df, mk_column,
              [W EXCEPT !.date_option = option, !.date_input = range])

\* C3: every row of the view for [s1,e1] is a row of the view for any
\* [s2,e2] containing it, the rest of the FilterSpec being equal; and
\* Last 6 months is within Last 12 months, which is within All Time.
C3_DateMonotone ==
  status = "ok" =>
    /\ \A s2 \in RangeDays, e2 \in RangeDays :
         (s2 <= start_date /\ end_date <= e2)
           => RowSet(filtered_df) \subseteq RowSet(ViewFor("Custom", << s2, e2 >>))
    /\ variant = "dashboard" =>
         /\ RowSet(ViewFor("Last 6 months", date_input))
              \subseteq RowSet(ViewFor("Last 12 months", date_input))
         /\ RowSet(ViewFor("Last 12 months", date_input))
              \subseteq RowSet(ViewFor("All Time", date_input))

\* a narrower view that is non-empty and strictly inside the All Time view
C3_Witness ==
  /\ variant = "dashboard" /\ status = "ok" /\ date_option = "Last 6 months"
  /\ filtered_df # << >>
  /\ RowSet(filtered_df) # RowSet(ViewFor("Last 12 months", date_input))
  /\ RowSet(ViewFor("Last 12 months", date_input)) # RowSet(ViewFor("All Time", date_input))

\* the view of the current FilterSpec with another rating selection
ViewWithRatings(R) ==
  FilterBlock(variant, df, mk_column, [W EXCEPT !.rating_options = R])

\* C4 as stated: in both variants an empty rating selection passes every
\* rating, i.e. gives the view of all five ratings selected.
C4_EmptyMeansAll ==
  (status = "ok" /\ rating_options = {}) => filtered_df = ViewWithRatings(Ratings)

\* C4 as amended: in dashboard.py an empty rating selection gives the view of
\* all five ratings; in scraper.py it gives the empty view; a non-empty
\* selection keeps exactly the rows of that view whose rating is selected.
C4_EmptyRatings ==
  status = "ok" =>
    /\ (variant = "dashboard" /\ rating_options = {})
         => filtered_df = ViewWithRatings(Ratings)
    /\ (variant = "scraper" /\ rating_options = {}) => filtered_df = << >>
    /\ rating_options # {}
         => filtered_df = SelectSeq(ViewWithRatings(Ratings),
                                    LAMBDA r : r.rating \in rating_options)

\* dashboard.py, nothing ticked, and the view still has rows
C4_Witness ==
  /\ variant = "dashboard" /\ status = "ok" /\ rating_options = {}
  /\ CategoryActive /\ filtered_df # << >>
  /\ Len(filtered_df) < Len(df)

\* a row holding only the searched text, as filter_by_categories sees it
Probe(text) ==
  [brand |-> NoBrand, customer_name |-> "probe", review |-> text, rating |-> 5,
   date |-> 0, matched_keywords |-> text]

KeptByCategories(text, selected) ==
  filter_by_categories(<< Probe(text) >>, selected, variant, mk_column) # << >>

\* C5: with a non-empty selection, filter_by_categories keeps a text iff it
\* contains, ignoring case, a keyword phrase of a selected category verbatim;
\* "wrong size, never got a reply" is kept for product_issue and not for
\* service_issue, "benefit" is kept for product_issue (by "fit", a keyword of
\* the dictionary of dashboard.py).
C5_LiteralSubstring ==
  (status = "ok" /\ selected_categories # << >>) =>
    /\ \A t \in Texts :
         KeptByCategories(t, selected_categories)
           <=> \E c \in Ticked : LiteralHit[variant][c][t]
    /\ selected_categories = << "product_issue" >> =>
         /\ KeptByCategories("wrong size, never got a reply", selected_categories)
         /\ variant = "dashboard" => KeptByCategories("Great benefit", selected_categories)
    /\ selected_categories = << "service_issue" >> =>
         ~KeptByCategories("wrong size, never got a reply", selected_categories)

\* the filter is applied with two categories and keeps a row for its text
\* "how tall is the mode", which the pattern "How tall is the model?" matches
C5_Witness ==
  /\ variant = "dashboard" /\ status = "ok" /\ CategoryActive
  /\ selected_categories = << "product_issue", "service_issue" >>
  /\ \E k \in 1..Len(filtered_df) : filtered_df[k].review = "how tall is the mode"
  /\ \E k \in 1..Len(df) : df[k] \notin RowSet(filtered_df)

HasUnrecognized ==
  \E k \in 1..Len(selected_categories) : selected_categories[k] \notin DOMAIN categories

ViewCount(x) == Cardinality({ k \in 1..Len(filtered_df) : filtered_df[k].rating = x })

\* the fraction q equals a / b
IsRatio(q, a, b) == "num" \in DOMAIN q /\ q.den # 0 /\ b # 0 /\ q.num * b = a * q.den

\* C7: for a non-empty view positive_pct = 100 * #(rating >= 4) / total,
\* negative_pct = 100 * #(rating <= 2) / total, average_rating is the mean;
\* positive + neutral + negative = total; ratings [5,1,3,4,2] give 3.0, 40.0
\* and 40.0.
C7_Metrics ==
  LET n   == Len(filtered_df)
      pos == ViewCount(4) + ViewCount(5)
      neg == ViewCount(1) + ViewCount(2)
      neu == ViewCount(3)
      sum == ViewCount(1) + 2 * ViewCount(2) + 3 * ViewCount(3)
               + 4 * ViewCount(4) + 5 * ViewCount(5)
      Label(l, c) == IF c = 0 THEN l \notin DOMAIN sentiment_counts
                     ELSE l \in DOMAIN sentiment_counts /\ sentiment_counts[l] = c
  IN  /\ metrics.shown <=> (status = "ok" /\ n > 0)
      /\ metrics.shown =>
           /\ metrics.total = n
           /\ metrics.positive_count = pos
           /\ metrics.negative_count = neg
           /\ IsRatio(metrics.positive_pct, 100 * pos, n)
           /\ IsRatio(metrics.negative_pct, 100 * neg, n)
           /\ IsRatio(metrics.avg_rating, sum, n)
           /\ pos + neu + neg = n
           /\ Label("Positive (4-5)", pos)
           /\ Label("Neutral (3)", neu)
           /\ Label("Negative (1-2)", neg)
           /\ [k \in 1..n |-> filtered_df[k].rating] = << 5, 1, 3, 4, 2 >> =>
                /\ IsRatio(metrics.avg_rating, 3, 1)
                /\ IsRatio(metrics.positive_pct, 40, 1)
                /\ IsRatio(metrics.negative_pct, 40, 1)

\* the view with ratings [5,1,3,4,2]
C7_Witness ==
  /\ metrics.shown
  /\ [k \in 1..Len(filtered_df) |-> filtered_df[k].rating] = << 5, 1, 3, 4, 2 >>
  /\ metrics.positive_count = 2 /\ metrics.negative_count = 2

\* C8: the rating histogram of a view has an entry for each of 1..5, zero
\* for a rating no row has.
C8_FullHistogram ==
  metrics.shown =>
    /\ DOMAIN rating_counts = Ratings
    /\ \A x \in Ratings : rating_counts[x] = ViewCount(x)

IsNumber(q) == "num" \in DOMAIN q

\* C9: no aggregate divides by zero, is NaN or raises; an empty view shows
\* "no data"; an empty per-category subset has count 0, percentage 0 and an
\* average that is absent, not a number.
C9_EmptyInputs ==
  status = "ok" =>
    /\ filtered_df = << >> => (metrics = NotShown /\ category_data = << >>)
    /\ metrics.shown =>
         /\ IsNumber(metrics.avg_rating)
         /\ IsNumber(metrics.positive_pct)
         /\ IsNumber(metrics.negative_pct)
    /\ \A k \in 1..Len(category_data) :
         /\ IsNumber(category_data[k].Positive)
         /\ category_data[k].Avg_Rating # NaN
         /\ category_data[k].Count = 0 =>
              /\ category_data[k].Positive.num = 0
              /\ ~IsNumber(category_data[k].Avg_Rating)

\* the view of the current FilterSpec with the single category c selected
ViewWithCategory(c) ==
  FilterBlock(variant, df, mk_column, [W EXCEPT !.selected_categories = << c >>])

\* C10: the breakdown row of each selected category counts the rows of
\* apply(Dataset, spec with categories = {c}); with one category selected it
\* equals the view's total, for every rating selection, the empty one too.
C10_BreakdownIsView ==
  (status = "ok" /\ CategoryActive) =>
    \A k \in 1..Len(category_data) :
      /\ category_data[k].Count = Len(ViewWithCategory(selected_categories[k]))
      /\ Len(selected_categories) = 1 => category_data[k].Count = Len(filtered_df)

(***************************************************************************)
(* Brand comparison.                                                       *)
(***************************************************************************)
\* the rows of the Dataset with brand b, and how many of them have rating x
BrandRows(b) == { k \in 1..Len(df) : df[k].brand = b }
BrandCount(b, x) == Cardinality({ k \in BrandRows(b) : df[k].rating = x })

\* the ratings of brand b's rows, in Dataset order
BrandRatings(b) ==
  LET rows == SelectSeq(df, LAMBDA r : r.brand = b)
  IN  [ k \in 1..Len(rows) |-> rows[k].rating ]

\* fig holds the figures of brand b as computed from b's rows of df alone
FiguresFor(fig, b) ==
  LET n   == Cardinality(BrandRows(b))
      sum == BrandCount(b, 1) + 2 * BrandCount(b, 2) + 3 * BrandCount(b, 3)
               + 4 * BrandCount(b, 4) + 5 * BrandCount(b, 5)
      hits(c) == Cardinality({ k \in BrandRows(b) :
                    LiteralHit["dashboard"][c][IF mk_column THEN df[k].matched_keywords
                                               ELSE df[k].review] })
  IN  /\ n > 0
      /\ fig.total = n
      /\ IsRatio(fig.avg_rating, sum, n)
      /\ IsRatio(fig.positive, 100 * (BrandCount(b, 4) + BrandCount(b, 5)), n)
      /\ IsRatio(fig.negative, 100 * (BrandCount(b, 1) + BrandCount(b, 2)), n)
      /\ DOMAIN fig.ratings = { x \in Ratings : BrandCount(b, x) > 0 }
      /\ \A x \in DOMAIN fig.ratings : fig.ratings[x] = BrandCount(b, x)
      /\ Len(fig.categories) = Len(CategoryOrder)
      /\ \A k \in 1..Len(CategoryOrder) :
           /\ fig.categories[k].Category = CategoryTitle[CategoryOrder[k]]
           /\ fig.categories[k].Count = hits(CategoryOrder[k])
           /\ IsRatio(fig.categories[k].Percent, 100 * hits(CategoryOrder[k]), n)

\* the fraction q, rounded to two decimals, is cents / 100
RoundsTo(q, cents) ==
  /\ "num" \in DOMAIN q /\ q.den > 0
  /\ (2 * cents - 1) * q.den <= 200 * q.num
  /\ 200 * q.num < (2 * cents + 1) * q.den

ComparisonShown == comparison # NotRendered /\ comparison.available

\* C11: whatever the FilterSpec, the figures the comparison shows for a brand
\* (average rating, total, positive %, negative %, rating distribution, and
\* per category the count and its % of the brand's total) are those of the
\* brand's rows of the Dataset and of nothing else; for ratings [5,5,4] and
\* [1,2] they are 4.67 and 100% for the first brand, 1.5 and 0% for the second.
C11_BrandFigures ==
  ComparisonShown =>
    /\ FiguresFor(comparison.figures1, comparison.brand1)
    /\ FiguresFor(comparison.figures2, comparison.brand2)
    /\ ( /\ BrandRatings(comparison.brand1) = << 5, 5, 4 >>
         /\ BrandRatings(comparison.brand2) = << 1, 2 >> )
       => /\ RoundsTo(comparison.figures1.avg_rating, 467)
          /\ IsRatio(comparison.figures1.positive, 100, 1)
          /\ IsRatio(comparison.figures2.avg_rating, 3, 2)
          /\ IsRatio(comparison.figures2.positive, 0, 1)

\* the comparison of ratings [5,5,4] against [1,2] is shown while the sidebar
\* filters by brand and by rating and the view is not the Dataset
C11_Witness ==
  /\ ComparisonShown
  /\ BrandRatings(comparison.brand1) = << 5, 5, 4 >>
  /\ BrandRatings(comparison.brand2) = << 1, 2 >>
  /\ BrandActive /\ rating_options # Ratings
  /\ filtered_df # df

\* C12: figures are computed only for a Dataset with at least two distinct
\* brands, and then for two different brands that each have at least one
\* row; for a Dataset with fewer brands the run reports the comparison as
\* unavailable and computes no figure.
C12_TwoBrandsOrUnavailable ==
  (variant = "dashboard" /\ status = "ok") =>
    /\ ComparisonShown =>
         /\ Cardinality(Brands(df)) >= 2
         /\ comparison.brand1 # comparison.brand2
         /\ BrandRows(comparison.brand1) # {}
         /\ BrandRows(comparison.brand2) # {}
    /\ Cardinality(Brands(df)) < 2 =>
         /\ comparison # NotRendered
         /\ ~comparison.available
         /\ "figures1" \notin DOMAIN comparison

(***************************************************************************)
(* Loading.                                                                *)
(***************************************************************************)
\* the tuple (brand, customer name, review text, rating, date) of a row
Tuple(r) == << r.brand, r.customer_name, r.review, r.rating, r.date >>

\* positions of the rows read whose tuple no earlier row read has
FirstOccurrences ==
  { k \in 1..Len(combined_df) :
      \A j \in 1..(k - 1) : Tuple(combined_df[j]) # Tuple(combined_df[k]) }

\* C13: in the loaded Dataset no two rows agree on (brand, customer name,
\* review text, rating, date); of the rows read that agree on it the first one
\* is the row kept; rows that differ on any component, the brand included, are
\* all kept; and the rows kept are in the order they were read in.
C13_Dedup ==
  /\ \A i \in 1..Len(df), j \in 1..Len(df) : i # j => Tuple(df[i]) # Tuple(df[j])
  /\ Len(df) = Cardinality(FirstOccurrences)
  /\ \A i \in 1..Len(df) :
       \E k \in FirstOccurrences :
         /\ Cardinality({ j \in FirstOccurrences : j < k }) = i - 1
         /\ df[i] = combined_df[k]

\* a row read was dropped although its matched_keywords differs from that of
\* the earlier row with its tuple, and two rows alike but for the brand stay
C13_Witness ==
  /\ \E k \in 1..Len(combined_df), j \in 1..Len(combined_df) :
       /\ j < k
       /\ Tuple(combined_df[j]) = Tuple(combined_df[k])
       /\ combined_df[j] # combined_df[k]
  /\ \E i \in 1..Len(df), j \in 1..Len(df) :
       /\ df[i].brand # df[j].brand
       /\ Tail(Tuple(df[i])) = Tail(Tuple(df[j]))
  /\ Len(df) < Len(combined_df)

(***************************************************************************)
(* Re-filtering.                                                           *)
(***************************************************************************)
\* the current FilterSpec differs from the first run's in every sidebar widget
\* a script has
SpecChanged ==
  /\ rating_options # Ratings
  /\ selected_categories # << >> /\ ~show_all
  /\ date_input # DefaultRange(df)
  /\ variant = "dashboard" => (brand_options # AllBrands /\ date_option = "Custom")

\* C14: after every sequence of FilterSpec changes the FilteredView is the
\* filter applied to the loaded Dataset under the current FilterSpec, whatever
\* the FilterSpecs before it were; and no step changes the loaded Dataset.
C14_ViewOfCurrentSpec ==
  /\ [](status = "ok" => filtered_df = FilterBlock(variant, df, mk_column, W))
  /\ [][df' = df /\ mk_column' = mk_column /\ combined_df' = combined_df]_vars

\* every sidebar widget has been changed and the view kept some rows only
C14_Witness ==
  /\ status = "ok" /\ SpecChanged
  /\ filtered_df # << >> /\ filtered_df # df

(***************************************************************************)
(* The text the category filter searches.                                  *)
(***************************************************************************)
\* the row passes the brand, date and rating predicates of the FilterSpec
PassesOthers(r) ==
  /\ BrandActive => r.brand = brand_options
  /\ start_date <= r.date /\ r.date <= end_date
  /\ RatingActive => r.rating \in rating_options

\* the text contains a keyword phrase of a ticked category
TickedHit(text) == \E c \in Ticked : LiteralHit[variant][c][text]

\* C15 as stated: the searched text is chosen row by row, a row that has a
\* matched_keywords value is matched on it and a row without one on its
\* review, so a row with a missing matched_keywords whose review contains a
\* selected keyword is kept even in a Dataset that has the column.
C15_TextPerRow ==
  (status = "ok" /\ CategoryActive) =>
    filtered_df =
      SelectSeq(df, LAMBDA r :
        /\ PassesOthers(r)
        /\ TickedHit(IF mk_column /\ r.matched_keywords # NA
                     THEN r.matched_keywords ELSE r.review))

\* C15 as amended: the searched text is chosen once for the Dataset: if it
\* has a matched_keywords column every row is matched on that column, and a
\* row whose matched_keywords is missing is dropped whatever its review
\* contains; if it has no such column every row is matched on its review.
C15_TextPerDataset ==
  (status = "ok" /\ CategoryActive) =>
    /\ filtered_df =
         SelectSeq(df, LAMBDA r :
           /\ PassesOthers(r)
           /\ TickedHit(IF mk_column THEN r.matched_keywords ELSE r.review))
    /\ mk_column => \A k \in 1..Len(filtered_df) : filtered_df[k].matched_keywords # NA

\* in a Dataset with the column, a row with a missing matched_keywords whose
\* review contains a ticked keyword is dropped while another row is kept
C15_Witness ==
  /\ status = "ok" /\ CategoryActive /\ mk_column
  /\ filtered_df # << >>
  /\ \E k \in 1..Len(df) :
       /\ PassesOthers(df[k])
       /\ df[k].matched_keywords = NA
       /\ TickedHit(df[k].review)
       /\ df[k] \notin RowSet(filtered_df)

(***************************************************************************)
(* Data tab.                                                               *)
(***************************************************************************)
\* the sort key of the k-th row of display_df
ShownKey(k) == SortKey(filtered_df[display_df[k].index], sort_by)

\* C16: the table of the Data view is the FilteredView re-sorted by the
\* chosen key and direction with a stable sort: it holds every row of the
\* view once, ordered by the key, and rows with equal keys stay in the order
\* they have in the Dataset, in both directions.
C16_StableSort ==
  display_df # NotBuilt =>
    /\ Len(display_df) = Len(filtered_df)
    /\ { display_df[k].index : k \in 1..Len(display_df) } = 1..Len(filtered_df)
    /\ \A k \in 1..Len(display_df) :
         display_df[k].cells = OnSubset(filtered_df[display_df[k].index], show_columns)
    /\ \A k \in 1..(Len(display_df) - 1) :
         /\ IF sort_order = "Ascending" THEN ShownKey(k) <= ShownKey(k + 1)
            ELSE ShownKey(k) >= ShownKey(k + 1)
         /\ ShownKey(k) = ShownKey(k + 1) => display_df[k].index < display_df[k + 1].index

(***************************************************************************)
(* Monthly sentiment trend.                                                *)
(***************************************************************************)
\* days of the months of a 365-day year
MonthLen == << 31, 28, 31, 30, 31, 30, 31, 31, 30, 31, 30, 31 >>

\* days of the year before month m
RECURSIVE DaysUpTo(_)
DaysUpTo(m) == IF m <= 1 THEN 0 ELSE MonthLen[m - 1] + DaysUpTo(m - 1)

\* the day number lies in the calendar month p
InMonth(date, p) ==
  /\ p.month \in 1..12
  /\ 365 * (p.year - 2021) + DaysUpTo(p.month) < date
  /\ date <= 365 * (p.year - 2021) + DaysUpTo(p.month) + MonthLen[p.month]

\* the rows of the view in month p whose rating has the sentiment label
Members(p, label) ==
  { k \in 1..Len(filtered_df) :
      /\ InMonth(filtered_df[k].date, p)
      /\ label = ( IF filtered_df[k].rating \in {4, 5} THEN "Positive (4-5)"
                   ELSE IF filtered_df[k].rating \in {1, 2} THEN "Negative (1-2)"
                   ELSE "Neutral (3)" ) }

MembersOfRow(g) == Members(timeline_df[g].Month, timeline_df[g].Sentiment)

RECURSIVE SumCounts(_, _)
SumCounts(t, g) == IF g > Len(t) THEN 0 ELSE t[g].Count + SumCounts(t, g + 1)

\* C17: the monthly sentiment trend of a non-empty view has exactly one row
\* for each (calendar month, sentiment) pair that has at least one row of the
\* view, with Count the number of those rows, and no row for a pair that has
\* none; the Counts add up to the size of the view.
C17_MonthlyTrend ==
  (variant = "dashboard" /\ status = "ok" /\ filtered_df # << >>) =>
    /\ \A g \in 1..Len(timeline_df), h \in 1..Len(timeline_df) :
         g # h => << timeline_df[g].Month, timeline_df[g].Sentiment >>
                    # << timeline_df[h].Month, timeline_df[h].Sentiment >>
    /\ \A g \in 1..Len(timeline_df) :
         /\ timeline_df[g].Count >= 1
         /\ timeline_df[g].Count = Cardinality(MembersOfRow(g))
    /\ \A k \in 1..Len(filtered_df) :
         \E g \in 1..Len(timeline_df) : k \in MembersOfRow(g)
    /\ SumCounts(timeline_df, 1) = Len(filtered_df)

\* two rows of different days make one row of Count 2, a second sentiment has
\* its own row, and the third sentiment, absent from the view, has none
C17_Witness ==
  /\ variant = "dashboard" /\ status = "ok"
  /\ Len(timeline_df) = 2
  /\ \E g \in 1..Len(timeline_df) :
       /\ timeline_df[g].Count = 2
       /\ \E i \in MembersOfRow(g), j \in MembersOfRow(g) :
            filtered_df[i].date # filtered_df[j].date
  /\ Len(filtered_df) = 3


\* C18: for every non-empty view, every non-empty column selection and every
\* sort key offered, the displayed and exported table is built: the sort does
\* not fail for a sort key that is not among the selected columns, and the
\* default column selection does not fail on a Dataset without the optional
\* matched_keywords or link column.
C18_TableBuilds ==
  (status = "ok" /\ filtered_df # << >> /\ show_columns # {}) =>
    /\ data_status # "not rendered"
    /\ display_df # NotBuilt
=============================================================================
